---- MODULE Spec2Model ----
(***************************************************************************)
(* Scene alignment engine of helpers/elevenlabs_helpers.py:                *)
(* calculate_durations_by_char_count scans the ordered scene list with one *)
(* integer cursor into the character-level alignment arrays and writes a   *)
(* duration string on each scene.                                          *)
(*                                                                         *)
(* Times are integers in milliseconds.  The alignments enumerated below    *)
(* use steps of 100 ms and 125 ms: for these the binary floating point     *)
(* result of the source and exact arithmetic round to the same two         *)
(* decimals (no 100 ms multiple is a rounding tie, every 125 ms multiple   *)
(* and the padding 0.5 are exact in binary).                               *)
(***************************************************************************)
EXTENDS Integers, Sequences, FiniteSets, TLC

\* ---------------------------------------------------------------- bounds
MaxScenes == 3
MaxAlign  == 7
MaxCalls  == 2
MaxPageScenes == 2

\* ------------------------------------------------------ program constants
SCENE_SEPARATOR == " [pause] "
PaddingMs       == 500

\* mutant: the operands are swapped
Duration_swapped(t_start, t_end) == t_start - t_end

\* line 105
Duration(t_start, t_end) == t_end - t_start

\* mutant: the padding is left out
final_duration_unpadded(duration) == duration

\* line 108
final_duration(duration) == duration + PaddingMs

\* ------------------------------------------------------------ input sets
Texts      == {"", "Hi.", "Bye."}
NoDuration == "<no duration key>"
PriorDurations == {NoDuration, "auto"}
Steps      == {100, 125}
Shapes     == {"up", "down"}
NoIdx      == -1

\* -------------------------------------------------------- python helpers
None      == [some |-> FALSE, val |-> <<>>]
Some(s)   == [some |-> TRUE, val |-> s]
\* truth value of `x` for x a list or None
Truthy(o) == o.some /\ Len(o.val) > 0

Min(a, b) == IF a <= b THEN a ELSE b
Abs(a)    == IF a < 0 THEN -a ELSE a

Digits == <<"0", "1", "2", "3", "4", "5", "6", "7", "8", "9">>

RECURSIVE IntStr(_)
IntStr(n) == IF n < 10 THEN Digits[n + 1]
             ELSE IntStr(n \div 10) \o Digits[(n % 10) + 1]

\* milliseconds -> hundredths, round half to even as the %.2f conversion
RoundHundredths(ms) ==
    LET q == ms \div 10
        r == ms % 10
    IN  IF r > 5 \/ (r = 5 /\ q % 2 = 1) THEN q + 1 ELSE q

\* f"{x:.2f}"
Format2f(ms) ==
    LET h == RoundHundredths(Abs(ms))
    IN  (IF ms < 0 THEN "-" ELSE "") \o IntStr(h \div 100) \o "."
            \o Digits[((h \div 10) % 10) + 1] \o Digits[(h % 10) + 1]

\* f"{final_duration:.2f}s"
FormatDuration(ms) == Format2f(ms) \o "s"

\* mutant: every text is followed by the separator
RECURSIVE Join_trailing(_, _)
Join_trailing(sep, texts) ==
    IF Len(texts) = 0 THEN ""
    ELSE Join_trailing(sep, SubSeq(texts, 1, Len(texts) - 1))
             \o texts[Len(texts)] \o sep

\* mutant: the texts are joined with nothing between them
RECURSIVE Join_nosep(_, _)
Join_nosep(sep, texts) ==
    IF Len(texts) = 0 THEN ""
    ELSE Join_nosep(sep, SubSeq(texts, 1, Len(texts) - 1)) \o texts[Len(texts)]

\* mutant: the separator is stripped of its surrounding spaces
RECURSIVE Join_stripped(_, _)
Join_stripped(sep, texts) ==
    IF Len(texts) = 0 THEN ""
    ELSE IF Len(texts) = 1 THEN texts[1]
    ELSE Join_stripped(sep, SubSeq(texts, 1, Len(texts) - 1))
             \o SubSeq(sep, 2, Len(sep) - 1) \o texts[Len(texts)]

\* sep.join(texts)
RECURSIVE Join(_, _)
Join(sep, texts) ==
    IF Len(texts) = 0 THEN ""
    ELSE IF Len(texts) = 1 THEN texts[1]
    ELSE Join(sep, SubSeq(texts, 1, Len(texts) - 1)) \o sep \o texts[Len(texts)]

\* sequence lookup seq[idx] with a 0-based, non-negative index
InRange(seq, idx) == idx >= 0 /\ idx < Len(seq)
At(seq, idx)      == seq[idx + 1]

\* ------------------------------------------------------------ alignments
\* "up": start and end times non-decreasing, "down": decreasing in i;
\* start_time[i] <= end_time[i] in both.
\* Array lengths: every length up to MaxAlign, and MaxAlign plus the
\* entries of one separator per scene boundary, for a backend that keeps
\* alignment entries for the separators.
MaxLen    == MaxAlign + Len(SCENE_SEPARATOR) * (MaxScenes - 1)
AlignLens == (0..MaxAlign)
             \cup {MaxAlign + Len(SCENE_SEPARATOR) * b : b \in 1..(MaxScenes - 1)}

StartTimes(n, step, shape) ==
    [k \in 1..n |-> IF shape = "up" THEN (k - 1) * step
                    ELSE (MaxLen + 1 - k) * step]
EndTimes(m, step, shape) ==
    [k \in 1..m |-> IF shape = "up" THEN k * step
                    ELSE (MaxLen + 2 - k) * step]

EndLens(n) == {m \in 0..MaxLen : m >= n - 2 /\ m <= n + 1}

Alignments ==
    {[character_start_times_seconds |-> Some(StartTimes(n, st, sh)),
      character_end_times_seconds   |-> Some(EndTimes(m, st, sh))] :
        <<n, m, st, sh>> \in
            {t \in AlignLens \X (0..MaxLen) \X Steps \X Shapes :
                /\ t[2] \in EndLens(t[1])
                /\ t[4] = "down" => t[3] = 100 /\ t[2] \in {t[1] - 1, t[1]}
                /\ t[3] = 125 => t[2] \in {t[1], t[1] + 1}}}
    \cup
    {[character_start_times_seconds |-> None,
      character_end_times_seconds   |-> Some(EndTimes(2, 100, "up"))],
     [character_start_times_seconds |-> Some(StartTimes(2, 100, "up")),
      character_end_times_seconds   |-> None],
     [character_start_times_seconds |-> None,
      character_end_times_seconds   |-> None]}

\* a response without time arrays
NoArrays ==
    [character_start_times_seconds |-> None,
     character_end_times_seconds   |-> None]

\* Alignments a later synthesis call of the same caller returns
RetryAlignments ==
    {[character_start_times_seconds |-> Some(StartTimes(n, 100, "up")),
      character_end_times_seconds   |-> Some(EndTimes(n, 100, "up"))] :
        n \in {2}}

\* the annotation a scene carries besides its text
Comments == {"note"}

SceneLists ==
    UNION {[1..n -> [elevenlabs : Texts, comment : Comments,
                       duration : PriorDurations]] :
              n \in 1..MaxScenes}

\* scene lists for the concatenation alone: texts that are, begin with or
\* end with a fragment of the separator
JoinTexts == {"", "Hi.", " ", " [pause]", "[pause] "}
JoinSceneLists ==
    UNION {[1..n -> [elevenlabs : JoinTexts, comment : Comments,
                       duration : {"auto"}]] :
              n \in 1..MaxScenes}

\* ------------------------------------------------------------------ state
VARIABLES
    scenes,                  \* the caller's scene list, mutated in place
    alignment,               \* the Alignment record of the current call
    expect_control,          \* EXPECT_CONTROL_ALIGNMENT_DATA
    pc,                      \* "idle", "scan", "returned", "raised"
    i,                       \* loop index of the scan (1-based)
    alignment_cursor,
    total_alignment_chars,
    returned,                \* value returned by the last call
    calls,                   \* calls started so far
    scenes_in,               \* the scene list as passed to the current call
    start_idx,               \* per scene: start_idx assigned in this call
    end_idx,                 \* per scene: end_idx assigned in this call
    effective_end_idx,       \* per scene: clamped end index of this call
    lookups,                 \* per scene: time-array reads of this call
    writes,                  \* per scene: duration writes of this call
    voiceover,               \* the string sent to synthesis
    data,                    \* the response of the synthesis call
    prev_alignment,          \* the Alignment of the previous engine call
    last_ok_return,          \* last value returned by a call that measured
                             \* every scene without an error sentinel
    session_state,           \* st.session_state of the browser session
    script,                  \* the handler the running script is inside
    handed,                  \* the scene list handed to elevenlabs_generation
    saved_edits              \* the list stored by the last "Save Final Edits"

vars == <<scenes, alignment, expect_control, pc, i, alignment_cursor,
          total_alignment_chars, returned, calls, scenes_in, start_idx,
          end_idx, effective_end_idx, lookups, writes, voiceover, data,
          prev_alignment, last_ok_return, session_state, script, handed,
          saved_edits>>

\* the state of the pages
page_vars == <<session_state, script, handed, saved_edits>>

\* the state of elevenlabs_generation and of the engine
engine_vars == <<scenes, alignment, expect_control, pc, i, alignment_cursor,
                 total_alignment_chars, returned, calls, scenes_in,
                 start_idx, end_idx, effective_end_idx, lookups, writes,
                 voiceover, data, prev_alignment, last_ok_return>>

\* what the engine neither reads nor writes
caller_vars == <<voiceover, data, prev_alignment, session_state, script,
                 handed, saved_edits>>

char_starts == alignment.character_start_times_seconds
char_ends   == alignment.character_end_times_seconds

Blank(v) == [k \in 1..Len(scenes) |-> v]

\* no page is open: the session holds the defaults and no script runs
NoSession ==
    /\ session_state = [is_processing |-> FALSE]
    /\ script = "idle"
    /\ handed = None
    /\ saved_edits = None

Init ==
    /\ scenes \in SceneLists
    /\ \E d \in PriorDurations : \A k \in 1..Len(scenes) : scenes[k].duration = d
    /\ alignment = NoArrays
    /\ expect_control \in BOOLEAN
    /\ pc = "start"
    /\ voiceover = ""
    /\ data = [has_alignment |-> FALSE, alignment |-> NoArrays]
    /\ prev_alignment = NoArrays
    /\ last_ok_return = <<>>
    /\ i = 0
    /\ alignment_cursor = 0
    /\ total_alignment_chars = 0
    /\ returned = <<>>
    /\ calls = 0
    /\ scenes_in = scenes
    /\ start_idx = Blank(NoIdx)
    /\ end_idx = Blank(NoIdx)
    /\ effective_end_idx = Blank(NoIdx)
    /\ lookups = Blank(0)
    /\ writes = Blank(0)
    /\ NoSession

\* mutant: the scene is rebuilt around the new duration
SetDuration_rebuilding(d) ==
    /\ scenes' = [scenes EXCEPT ![i] = [elevenlabs |-> @.elevenlabs,
                                        comment |-> "",
                                        duration |-> d]]
    /\ writes' = [writes EXCEPT ![i] = @ + 1]

\* scene['duration'] = d
SetDuration(d) ==
    /\ scenes' = [scenes EXCEPT ![i].duration = d]
    /\ writes' = [writes EXCEPT ![i] = @ + 1]

\* elevenlabs_generation lines 203-208: the texts joined by the separator
Concatenate ==
    /\ pc = "start"
    /\ voiceover' = Join(SCENE_SEPARATOR,
                         [k \in 1..Len(scenes) |-> scenes[k].elevenlabs])
    /\ pc' = "joined"
    /\ UNCHANGED <<scenes, alignment, expect_control, i, alignment_cursor,
                   total_alignment_chars, returned, calls, scenes_in,
                   start_idx, end_idx, effective_end_idx, lookups, writes,
                   data, prev_alignment, last_ok_return>>
    /\ UNCHANGED page_vars

\* the Alignments the synthesis backend may answer with: any one the
\* first time, then the previous one again, none, or (on the second call)
\* a retry alignment
Responses == IF calls = 0 THEN Alignments
             ELSE IF calls = 1
             THEN {prev_alignment, NoArrays} \cup RetryAlignments
             ELSE {prev_alignment, NoArrays}

\* mutant: the engine gets the Alignment of the batch before
Synthesize_previous ==
    /\ pc = "joined"
    /\ \E a \in Responses :
          /\ data' = [has_alignment |-> TRUE, alignment |-> a]
          /\ alignment' = IF calls = 0 THEN a ELSE prev_alignment
    /\ pc' = "idle"
    /\ UNCHANGED <<scenes, expect_control, i, alignment_cursor,
                   total_alignment_chars, returned, calls, scenes_in,
                   start_idx, end_idx, effective_end_idx, lookups, writes,
                   voiceover, prev_alignment, last_ok_return>>
    /\ UNCHANGED page_vars

\* elevenlabs_generation lines 219-230: the response carries an alignment,
\* which is handed to the engine
Synthesize ==
    /\ pc = "joined"
    /\ \E a \in Responses :
          /\ data' = [has_alignment |-> TRUE, alignment |-> a]
          /\ alignment' = a
    /\ pc' = "idle"
    /\ UNCHANGED <<scenes, expect_control, i, alignment_cursor,
                   total_alignment_chars, returned, calls, scenes_in,
                   start_idx, end_idx, effective_end_idx, lookups, writes,
                   voiceover, prev_alignment, last_ok_return>>
    /\ UNCHANGED page_vars

\* elevenlabs_generation lines 219-241: the response carries no alignment,
\* the engine is not called and script_obj is returned as it is
SynthesizeNoAlignment ==
    /\ pc = "joined"
    /\ data' = [has_alignment |-> FALSE, alignment |-> NoArrays]
    /\ alignment' = NoArrays
    /\ pc' = "skipped"
    /\ UNCHANGED <<scenes, expect_control, i, alignment_cursor,
                   total_alignment_chars, returned, calls, scenes_in,
                   start_idx, end_idx, effective_end_idx, lookups, writes,
                   voiceover, prev_alignment, last_ok_return>>
    /\ UNCHANGED page_vars

\* the entry of a call: the per-call records start empty
EnterCall ==
    /\ calls' = calls + 1
    /\ scenes_in' = scenes
    /\ start_idx' = Blank(NoIdx)
    /\ end_idx' = Blank(NoIdx)
    /\ effective_end_idx' = Blank(NoIdx)
    /\ lookups' = Blank(0)
    /\ writes' = Blank(0)

\* mutant: the failed batch is marked on every scene
AlignmentMissing_marking ==
    /\ pc = "idle"
    /\ ~Truthy(char_starts) \/ ~Truthy(char_ends)
    /\ EnterCall
    /\ scenes' = [k \in 1..Len(scenes) |->
                      [scenes[k] EXCEPT !.duration = "error"]]
    /\ pc' = "returned"
    /\ returned' = scenes'
    /\ i' = 0
    /\ alignment_cursor' = 0
    /\ total_alignment_chars' = 0
    /\ UNCHANGED <<alignment, expect_control, last_ok_return>>
    /\ UNCHANGED caller_vars

\* lines 65-71: a time array is None or empty: return the scenes as passed
AlignmentMissing ==
    /\ pc = "idle"
    /\ ~Truthy(char_starts) \/ ~Truthy(char_ends)
    /\ EnterCall
    /\ pc' = "returned"
    /\ returned' = scenes
    /\ i' = 0
    /\ alignment_cursor' = 0
    /\ total_alignment_chars' = 0
    /\ UNCHANGED <<scenes, alignment, expect_control, last_ok_return>>
    /\ UNCHANGED caller_vars

\* mutant: the cursor outlives the call
BeginScan_keepcursor ==
    /\ pc = "idle"
    /\ Truthy(char_starts) /\ Truthy(char_ends)
    /\ EnterCall
    /\ total_alignment_chars' = Len(char_starts.val)
    /\ i' = 1
    /\ pc' = "scan"
    /\ UNCHANGED <<scenes, alignment, expect_control, returned,
                   last_ok_return, alignment_cursor>>
    /\ UNCHANGED caller_vars

\* lines 65-76: both arrays present and non-empty: start the scan
BeginScan ==
    /\ pc = "idle"
    /\ Truthy(char_starts) /\ Truthy(char_ends)
    /\ EnterCall
    /\ total_alignment_chars' = Len(char_starts.val)
    /\ alignment_cursor' = 0
    /\ i' = 1
    /\ pc' = "scan"
    /\ UNCHANGED <<scenes, alignment, expect_control, returned,
                   last_ok_return>>
    /\ UNCHANGED caller_vars

text     == scenes[i].elevenlabs
text_len == Len(text)

\* mutant: an empty scene consumes one alignment entry
EmptyScene_advancing ==
    /\ pc = "scan"
    /\ i <= Len(scenes)
    /\ Len(scenes[i].elevenlabs) = 0
    /\ SetDuration("0s")
    /\ alignment_cursor' = alignment_cursor + 1
    /\ i' = i + 1
    /\ UNCHANGED <<alignment, expect_control, pc,
                   total_alignment_chars, returned, calls, scenes_in,
                   start_idx, end_idx, effective_end_idx, lookups,
                   last_ok_return>>
    /\ UNCHANGED caller_vars

\* lines 80-85: empty scene, `continue` skips the cursor advance
EmptyScene ==
    /\ pc = "scan"
    /\ i <= Len(scenes)
    /\ text_len = 0
    /\ SetDuration("0s")
    /\ i' = i + 1
    /\ UNCHANGED <<alignment, expect_control, pc, alignment_cursor,
                   total_alignment_chars, returned, calls, scenes_in,
                   start_idx, end_idx, effective_end_idx, lookups,
                   last_ok_return>>
    /\ UNCHANGED caller_vars

\* mutant: `continue` in place of `break`
StartOutOfBounds_continue ==
    /\ pc = "scan"
    /\ i <= Len(scenes)
    /\ Len(scenes[i].elevenlabs) # 0
    /\ alignment_cursor >= total_alignment_chars
    /\ start_idx' = [start_idx EXCEPT ![i] = alignment_cursor]
    /\ end_idx' = [end_idx EXCEPT ![i] =
                       alignment_cursor + Len(scenes[i].elevenlabs) - 1]
    /\ SetDuration("error")
    /\ i' = i + 1
    /\ UNCHANGED <<alignment, expect_control, pc, alignment_cursor,
                   total_alignment_chars, returned, calls, scenes_in,
                   effective_end_idx, lookups, last_ok_return>>
    /\ UNCHANGED caller_vars

\* mutant: the halt marks the whole list
StartOutOfBounds_marking_all ==
    /\ pc = "scan"
    /\ i <= Len(scenes)
    /\ Len(scenes[i].elevenlabs) # 0
    /\ alignment_cursor >= total_alignment_chars
    /\ start_idx' = [start_idx EXCEPT ![i] = alignment_cursor]
    /\ end_idx' = [end_idx EXCEPT ![i] =
                       alignment_cursor + Len(scenes[i].elevenlabs) - 1]
    /\ scenes' = [k \in 1..Len(scenes) |->
                      [scenes[k] EXCEPT !.duration = "error"]]
    /\ writes' = [k \in 1..Len(scenes) |-> writes[k] + 1]
    /\ pc' = "returned"
    /\ returned' = scenes'
    /\ UNCHANGED <<alignment, expect_control, i, alignment_cursor,
                   total_alignment_chars, calls, scenes_in,
                   effective_end_idx, lookups, last_ok_return>>
    /\ UNCHANGED caller_vars

\* lines 87-95, 135: start index out of bounds, `break`, return
StartOutOfBounds ==
    /\ pc = "scan"
    /\ i <= Len(scenes)
    /\ text_len # 0
    /\ alignment_cursor >= total_alignment_chars
    /\ start_idx' = [start_idx EXCEPT ![i] = alignment_cursor]
    /\ end_idx' = [end_idx EXCEPT ![i] = alignment_cursor + text_len - 1]
    /\ SetDuration("error")
    /\ pc' = "returned"
    /\ returned' = scenes'
    /\ UNCHANGED <<alignment, expect_control, i, alignment_cursor,
                   total_alignment_chars, calls, scenes_in,
                   effective_end_idx, lookups, last_ok_return>>
    /\ UNCHANGED caller_vars

\* mutant: the end index is used unclamped
Clamp_none(e, total) == e

\* mutant: the end index is clamped to the length
Clamp_to_length(e, total) == Min(e, total)

\* line 98
Clamp(e, total) == Min(e, total - 1)

\* mutant: the separator is counted after the last scene too
SeparatorAdvance_always(idx, n) ==
    IF expect_control THEN Len(SCENE_SEPARATOR) ELSE 0

\* lines 119-133: cursor after a measured scene
SeparatorAdvance(idx, n) ==
    IF idx < n /\ expect_control THEN Len(SCENE_SEPARATOR) ELSE 0

\* mutant: the cursor continues from the clamped end index
AdvanceCursor_clamped(cursor, len, idx, n) ==
    Min(cursor + len, total_alignment_chars) + SeparatorAdvance(idx, n)
\* mutant: `=` in place of `+=`
AdvanceCursor_assign(cursor, len, idx, n) == len + SeparatorAdvance(idx, n)
\* mutant: the text length is not added
AdvanceCursor_stuck(cursor, len, idx, n) == cursor + SeparatorAdvance(idx, n)

AdvanceCursor(cursor, len, idx, n) == cursor + len + SeparatorAdvance(idx, n)

\* mutant: the handler names another exception
Caught_KeyError(exc) == exc = "KeyError"

\* exceptions the try block of lines 100-117 handles
Caught(exc) == exc = "IndexError"

\* lines 87-133: a scene whose start index is in range
MeasureScene ==
    /\ pc = "scan"
    /\ i <= Len(scenes)
    /\ text_len # 0
    /\ alignment_cursor < total_alignment_chars
    /\ LET s   == alignment_cursor
           e   == alignment_cursor + text_len - 1
           eff == Clamp(e, total_alignment_chars)
           exc == IF ~InRange(char_starts.val, s) \/ ~InRange(char_ends.val, eff)
                  THEN "IndexError" ELSE "none"
           nlk == IF InRange(char_starts.val, s) THEN 2 ELSE 1
       IN  /\ start_idx' = [start_idx EXCEPT ![i] = s]
           /\ end_idx' = [end_idx EXCEPT ![i] = e]
           /\ effective_end_idx' = [effective_end_idx EXCEPT ![i] = eff]
           /\ lookups' = [lookups EXCEPT ![i] = @ + nlk]
           /\ IF exc = "none"
              THEN /\ SetDuration(FormatDuration(final_duration(
                          Duration(At(char_starts.val, s),
                                   At(char_ends.val, eff)))))
                   /\ alignment_cursor' =
                          AdvanceCursor(alignment_cursor, text_len, i, Len(scenes))
                   /\ i' = i + 1
                   /\ pc' = "scan"
              ELSE IF Caught(exc)
              THEN /\ SetDuration("error")
                   /\ alignment_cursor' =
                          AdvanceCursor(alignment_cursor, text_len, i, Len(scenes))
                   /\ i' = i + 1
                   /\ pc' = "scan"
              ELSE /\ UNCHANGED <<scenes, writes, alignment_cursor, i>>
                   /\ pc' = "raised"
    /\ UNCHANGED <<alignment, expect_control, total_alignment_chars,
                   returned, calls, scenes_in, last_ok_return>>
    /\ UNCHANGED caller_vars

\* line 135: the loop is exhausted
ReturnScenes ==
    /\ pc = "scan"
    /\ i > Len(scenes)
    /\ pc' = "returned"
    /\ returned' = scenes
    /\ last_ok_return' =
          IF \A k \in 1..Len(scenes) : scenes[k].duration # "error"
          THEN scenes ELSE last_ok_return
    /\ UNCHANGED <<scenes, alignment, expect_control, i, alignment_cursor,
                   total_alignment_chars, calls, scenes_in, start_idx,
                   end_idx, effective_end_idx, lookups, writes>>
    /\ UNCHANGED caller_vars

\* the caller generates again on the list it got back
CallAgain ==
    /\ pc \in {"returned", "skipped"}
    /\ calls < MaxCalls
    /\ prev_alignment' = IF pc = "returned" THEN alignment ELSE prev_alignment
    /\ pc' = "start"
    /\ UNCHANGED <<scenes, alignment, expect_control, i, alignment_cursor,
                   total_alignment_chars, returned, calls, scenes_in,
                   start_idx, end_idx, effective_end_idx, lookups, writes,
                   voiceover, data, last_ok_return>>
    /\ UNCHANGED page_vars

Next ==
    \/ Concatenate
    \/ Synthesize
    \/ SynthesizeNoAlignment
    \/ AlignmentMissing
    \/ BeginScan
    \/ EmptyScene
    \/ StartOutOfBounds
    \/ MeasureScene
    \/ ReturnScenes
    \/ CallAgain

Spec == Init /\ [][Next]_vars

\* the concatenation step alone, over JoinSceneLists
InitJoin ==
    /\ scenes \in JoinSceneLists
    /\ alignment = NoArrays
    /\ expect_control = FALSE
    /\ pc = "start"
    /\ voiceover = ""
    /\ data = [has_alignment |-> FALSE, alignment |-> NoArrays]
    /\ prev_alignment = NoArrays
    /\ last_ok_return = <<>>
    /\ i = 0
    /\ alignment_cursor = 0
    /\ total_alignment_chars = 0
    /\ returned = <<>>
    /\ calls = 0
    /\ scenes_in = scenes
    /\ start_idx = Blank(NoIdx)
    /\ end_idx = Blank(NoIdx)
    /\ effective_end_idx = Blank(NoIdx)
    /\ lookups = Blank(0)
    /\ writes = Blank(0)
    /\ NoSession

NextJoin == Concatenate

SpecJoin == InitJoin /\ [][NextJoin]_vars

TypeOK ==
    /\ pc \in {"start", "joined", "skipped", "idle", "scan", "returned",
              "raised"}
    /\ Len(scenes) \in 1..MaxScenes
    /\ i \in 0..(Len(scenes) + 1)
    /\ alignment_cursor >= 0

\* ================================================================ claims
InCall      == pc \in {"scan", "returned"}
N           == Len(char_starts.val)
Assigned(k) == start_idx[k] # NoIdx
Measured(k) == effective_end_idx[k] # NoIdx
Halted(k)   == Assigned(k) /\ start_idx[k] >= total_alignment_chars
TextLen(k)  == Len(scenes_in[k].elevenlabs)
TextsOf(sc) == [k \in 1..Len(sc) |-> sc[k].elevenlabs]
DurationsOf(sc) == [k \in 1..Len(sc) |-> sc[k].duration]

\* the cursor-advance rule in closed form: the start index of scene k from
\* the text lengths of the scenes before it and the separator flag only
RECURSIVE RuleStart(_, _, _)
RuleStart(lens, flag, k) ==
    IF k = 1 THEN 0
    ELSE RuleStart(lens, flag, k - 1)
         + (IF lens[k - 1] = 0 THEN 0
            ELSE lens[k - 1] + (IF flag THEN 9 ELSE 0))

InputLens == [k \in 1..Len(scenes_in) |-> TextLen(k)]

Uniform(n) ==
    [character_start_times_seconds |-> Some(StartTimes(n, 100, "up")),
     character_end_times_seconds   |-> Some(EndTimes(n, 100, "up"))]

\* C1: when the call has scanned (both time arrays present) and returned,
\* every scene has been written exactly one duration value by this call.
C1_EverySceneWritten ==
    (pc = "returned" /\ Truthy(char_starts) /\ Truthy(char_ends))
        => \A k \in 1..Len(scenes) : writes[k] = 1

\* C2: when scene k's start index is out of bounds, every later scene
\* carries the error sentinel and no time-array lookup was made for it.
C2_LaterScenesMarkedError ==
    \A k \in 1..Len(scenes) :
        (pc = "returned" /\ Halted(k))
            => \A j \in (k + 1)..Len(scenes) :
                   scenes[j].duration = "error" /\ lookups[j] = 0

\* C3: the start index assigned to a scene is the one the cursor-advance
\* rule gives from the earlier scenes' text lengths and the separator flag,
\* whatever the Alignment holds and whether or not an earlier scene was
\* clamped or recorded an error.
C3_StartFromTextLengthsOnly ==
    \A k \in 1..Len(scenes) :
        (InCall /\ Assigned(k))
            => start_idx[k] = RuleStart(InputLens, expect_control, k)

C3_Witness ==
    /\ InCall
    /\ \E j, k \in 1..Len(scenes) :
          /\ j < k
          /\ Assigned(k)
          /\ Measured(j)
          /\ effective_end_idx[j] < end_idx[j]
          /\ scenes[j].duration = "error"

\* C4: no exception leaves the call, and the returned sequence has the
\* scenes of the input, in the same order and number.
C4_NeverRaises ==
    /\ pc # "raised"
    /\ pc = "returned"
          => /\ Len(returned) = Len(scenes_in)
             /\ TextsOf(returned) = TextsOf(scenes_in)

C4_Witness ==
    /\ pc = "returned"
    /\ Len(char_ends.val) < Len(char_starts.val)
    /\ \E k \in 1..Len(scenes) :
          /\ scenes[k].elevenlabs = ""
          /\ \E j \in 1..Len(scenes) :
                Measured(j) /\ returned[j].duration = "error"

\* C5: the cursor is 0 when the scan starts and no step of the scan
\* lowers it.
C5_CursorMonotone ==
    [][/\ (pc = "idle" /\ pc' = "scan") => alignment_cursor' = 0
       /\ pc = "scan" => alignment_cursor' >= alignment_cursor]_vars

C5_Witness ==
    /\ pc = "scan"
    /\ i = 4
    /\ alignment_cursor > 0
    /\ scenes[2].elevenlabs = ""
    /\ Measured(1) /\ Measured(3)

\* C6: a later scene starts at or after the end index, unclamped and
\* clamped, of every earlier measured scene.
C6_SpansDoNotOverlap ==
    \A j, k \in 1..Len(scenes) :
        (InCall /\ j < k /\ Measured(j) /\ Assigned(k))
            => /\ start_idx[k] >= end_idx[j]
               /\ start_idx[k] >= effective_end_idx[j]

C6_Witness ==
    /\ InCall
    /\ \E j, k \in 1..Len(scenes) :
          /\ j < k
          /\ Measured(j) /\ Measured(k)
          /\ effective_end_idx[k] < end_idx[k]

\* C7: a measured scene whose end time exists carries
\* end_time[min(start + text_len - 1, N - 1)] - start_time[start] + 0.5
\* with two decimals and "s"; scenario A yields spans 0-2 and 3-6 and the
\* durations "0.80s" and "0.90s".
C7_DurationValue ==
    /\ \A k \in 1..Len(scenes) :
          LET s == RuleStart(InputLens, expect_control, k)
              e == Min(s + TextLen(k) - 1, N - 1)
          IN  (InCall /\ Measured(k) /\ InRange(char_ends.val, e))
                  => scenes[k].duration =
                         FormatDuration(At(char_ends.val, e)
                                        - At(char_starts.val, s) + 500)
    /\ (/\ pc = "returned"
        /\ TextsOf(scenes) = <<"Hi.", "Bye.">>
        /\ ~expect_control
        /\ alignment = Uniform(7))
          => /\ start_idx = <<0, 3>>
             /\ effective_end_idx = <<2, 6>>
             /\ DurationsOf(scenes) = <<"0.80s", "0.90s">>

C7_Witness ==
    /\ pc = "returned"
    /\ TextsOf(scenes) = <<"Hi.", "Bye.">>
    /\ ~expect_control
    /\ alignment = Uniform(7)
    /\ DurationsOf(scenes) = <<"0.80s", "0.90s">>

\* C8: an end index past the Alignment is clamped to N - 1 and, the end
\* time at N - 1 existing, the scene carries the duration computed from
\* it, not the error sentinel; scenario B: scene 2 starts at 3, its end
\* index 6 clamps to 4.
C8_EndIndexClamped ==
    /\ \A k \in 1..Len(scenes) :
          (InCall /\ Measured(k) /\ end_idx[k] > N - 1)
              => /\ effective_end_idx[k] = N - 1
                 /\ InRange(char_ends.val, N - 1)
                        => /\ scenes[k].duration # "error"
                           /\ scenes[k].duration =
                                  FormatDuration(At(char_ends.val, N - 1)
                                      - At(char_starts.val, start_idx[k])
                                      + 500)
    /\ (/\ pc = "returned"
        /\ TextsOf(scenes) = <<"Hi.", "Bye.">>
        /\ ~expect_control
        /\ alignment = Uniform(5))
          => /\ start_idx[2] = 3
             /\ end_idx[2] = 6
             /\ effective_end_idx[2] = 4
             /\ scenes[2].duration = "0.70s"

C8_Witness ==
    /\ pc = "returned"
    /\ TextsOf(scenes) = <<"Hi.", "Bye.">>
    /\ ~expect_control
    /\ alignment = Uniform(5)
    /\ effective_end_idx[2] = 4
    /\ scenes[2].duration # "error"

\* C9: a scene whose start index is at or past the Alignment length
\* carries the error sentinel and ends the scan: the call has returned, no
\* later scene was looked up or written, the cursor stays where it was.
C9_OutOfBoundsStartHalts ==
    \A k \in 1..Len(scenes) :
        (InCall /\ Halted(k))
            => /\ scenes[k].duration = "error"
               /\ pc = "returned"
               /\ alignment_cursor = start_idx[k]
               /\ \A j \in (k + 1)..Len(scenes) :
                      /\ ~Assigned(j) /\ ~Measured(j)
                      /\ lookups[j] = 0 /\ writes[j] = 0

C9_Witness ==
    /\ pc = "returned"
    /\ \E k \in 1..Len(scenes) :
          /\ Halted(k)
          /\ k < Len(scenes)
          /\ scenes[k + 1].elevenlabs # ""

C11_SeparatorAfterEmpty ==
    [][(/\ pc = "scan"
        /\ i < Len(scenes)
        /\ scenes[i].elevenlabs = ""
        /\ expect_control)
          => alignment_cursor' = alignment_cursor + 9]_vars

\* C12: the step over a non-empty scene whose start index is in range adds
\* text_len to the cursor, plus 9 when the scene is not the last one and
\* the separator is retained, and nothing more otherwise.
C12_CursorAdvance ==
    [][(/\ pc = "scan"
        /\ i <= Len(scenes)
        /\ scenes[i].elevenlabs # ""
        /\ alignment_cursor < total_alignment_chars)
          => alignment_cursor' =
                 alignment_cursor + Len(scenes[i].elevenlabs)
                 + (IF i < Len(scenes) /\ expect_control THEN 9 ELSE 0)]_vars

C12_Witness ==
    /\ pc = "scan"
    /\ TextsOf(scenes) = <<"Hi.", "Bye.">>
    /\ expect_control
    /\ i = 3
    /\ Measured(1) /\ Measured(2)
    /\ alignment_cursor = 16

\* ------------------------------------------------ concatenation (SpecJoin)
\* the texts with the separator between consecutive ones, built from the
\* front
RECURSIVE Interleaved(_)
Interleaved(ts) ==
    IF Len(ts) = 1 THEN ts[1]
    ELSE ts[1] \o " [pause] " \o Interleaved(Tail(ts))

RECURSIVE SumLen(_)
SumLen(ts) == IF Len(ts) = 0 THEN 0 ELSE Len(ts[1]) + SumLen(Tail(ts))

\* positions (1-based) at which sub occurs in str
Occurrences(str, sub) ==
    {p \in 1..(Len(str) - Len(sub) + 1) :
        SubSeq(str, p, p + Len(sub) - 1) = sub}
Contains(str, sub) == Occurrences(str, sub) # {}
EndsWith(str, suf) ==
    Len(str) >= Len(suf)
        /\ SubSeq(str, Len(str) - Len(suf) + 1, Len(str)) = suf

\* str.split(sep): cut at the leftmost occurrence, go on after it
RECURSIVE SplitOn(_, _)
SplitOn(str, sep) ==
    IF ~Contains(str, sep) THEN <<str>>
    ELSE LET p == CHOOSE q \in Occurrences(str, sep) :
                      \A r \in Occurrences(str, sep) : q <= r
         IN  <<SubSeq(str, 1, p - 1)>>
                 \o SplitOn(SubSeq(str, p + Len(sep), Len(str)), sep)

\* C13: the string sent to synthesis is the scene texts in order with
\* " [pause] " between every two consecutive texts, empty ones included,
\* and nothing before the first or after the last.
C13_JoinedBySeparator ==
    pc = "joined"
        => /\ voiceover = Interleaved(TextsOf(scenes))
           /\ TextsOf(scenes) = <<"Hi.", "", "Hi.">>
                  => voiceover = "Hi. [pause]  [pause] Hi."

C13_Witness ==
    /\ pc = "joined"
    /\ TextsOf(scenes) = <<"Hi.", "", "Hi.">>
    /\ voiceover = "Hi. [pause]  [pause] Hi."

\* C14: the length of the concatenation is the sum of the text lengths
\* plus 9 for each of the n - 1 scene boundaries.
C14_JoinedLength ==
    pc = "joined"
        => Len(voiceover) = SumLen(TextsOf(scenes)) + 9 * (Len(scenes) - 1)

C14_Witness ==
    /\ pc = "joined"
    /\ TextsOf(scenes) = <<" [pause]", "", "Hi.">>
    /\ Len(voiceover) = 29

\* C15 as stated: no scene text containing the separator, splitting the
\* concatenation on the separator gives back the scene texts.
C15_RoundTrip ==
    (/\ pc = "joined"
     /\ \A k \in 1..Len(scenes) :
            ~Contains(scenes[k].elevenlabs, " [pause] "))
        => SplitOn(voiceover, " [pause] ") = TextsOf(scenes)

\* C15 amended: the round trip holds when, besides, no scene text before
\* the last one ends with " [pause]", the separator less its last space.
C15_RoundTripNoOverlap ==
    (/\ pc = "joined"
     /\ \A k \in 1..Len(scenes) :
            ~Contains(scenes[k].elevenlabs, " [pause] ")
     /\ \A k \in 1..(Len(scenes) - 1) :
            ~EndsWith(scenes[k].elevenlabs, " [pause]"))
        => SplitOn(voiceover, " [pause] ") = TextsOf(scenes)

C15_Witness ==
    /\ pc = "joined"
    /\ TextsOf(scenes) = <<"[pause] ", " ", " [pause]">>
    /\ SplitOn(voiceover, " [pause] ") = TextsOf(scenes)

\* ------------------------------------------------------- engine, continued
ArraysMissing == ~Truthy(char_starts) \/ ~Truthy(char_ends)
\* the lookup of scene k went out of range
LookupFailed(k) ==
    Measured(k) /\ ~InRange(char_ends.val, effective_end_idx[k])

\* C16: a call whose Alignment lacks a time array writes no duration and
\* returns every scene as it was passed in.
C16_MissingLeavesScenes ==
    (pc = "returned" /\ ArraysMissing)
        => /\ scenes = scenes_in
           /\ returned = scenes_in
           /\ \A k \in 1..Len(scenes) : writes[k] = 0

C16_Witness ==
    /\ pc = "returned"
    /\ ~char_starts.some
    /\ \E k \in 1..Len(scenes) :
          scenes[k].elevenlabs # "" /\ scenes[k].duration = "auto"

\* C17: the value an alignment-missing call returns differs from the value
\* a call that measured every scene returned.
C17_FailureDistinguishable ==
    (pc = "returned" /\ ArraysMissing) => returned # last_ok_return

\* C18 as stated: a lookup that goes out of range marks its scene with the
\* error sentinel, the scan goes on, and the later scenes that are looked
\* up carry a measurement.
C18_LaterScenesMeasured ==
    \A k \in 1..Len(scenes) :
        (InCall /\ LookupFailed(k))
            => /\ scenes[k].duration = "error"
               /\ k < i
               /\ \A j \in (k + 1)..Len(scenes) :
                      Measured(j) => scenes[j].duration # "error"

\* C18 amended: the failing step writes the error sentinel on its scene
\* alone, stays in the scan and advances the cursor by text_len and the
\* separator rule; the later scenes are still visited, by the same rules,
\* and each later scene that is looked up fails the same way.
C18_LookupErrorContinues ==
    /\ [][(/\ pc = "scan"
           /\ i <= Len(scenes)
           /\ scenes[i].elevenlabs # ""
           /\ alignment_cursor < total_alignment_chars
           /\ ~InRange(char_ends.val,
                       Min(alignment_cursor + Len(scenes[i].elevenlabs) - 1,
                           total_alignment_chars - 1)))
             => /\ scenes'[i].duration = "error"
                /\ \A j \in 1..Len(scenes) : j # i => scenes'[j] = scenes[j]
                /\ pc' = "scan"
                /\ i' = i + 1
                /\ alignment_cursor' =
                       alignment_cursor + Len(scenes[i].elevenlabs)
                       + (IF i < Len(scenes) /\ expect_control
                          THEN 9 ELSE 0)]_vars
    /\ [](\A k \in 1..Len(scenes) :
             (InCall /\ LookupFailed(k))
                 => /\ scenes[k].duration = "error"
                    /\ k < i
                    /\ \A j \in (k + 1)..Len(scenes) :
                          /\ Measured(j) => scenes[j].duration = "error"
                          /\ pc = "returned"
                                => \/ writes[j] = 1
                                   \/ \E h \in (k + 1)..(j - 1) : Halted(h))

C18_Witness ==
    /\ pc = "returned"
    /\ Len(scenes) = 3
    /\ LookupFailed(1)
    /\ scenes[2].elevenlabs = "" /\ scenes[2].duration = "0s"
    /\ Measured(3) /\ scenes[3].duration = "error"

\* start_time[i] <= end_time[i], both arrays non-decreasing
MonotoneAlignment ==
    /\ \A a \in 1..Len(char_starts.val) :
          /\ a <= Len(char_ends.val) => char_starts.val[a] <= char_ends.val[a]
          /\ a > 1 => char_starts.val[a - 1] <= char_starts.val[a]
    /\ \A a \in 2..Len(char_ends.val) :
          char_ends.val[a - 1] <= char_ends.val[a]

\* reading a duration string "[-]d.dds" back, in hundredths
DigitVal(ch) == CHOOSE dg \in 0..9 : Digits[dg + 1] = ch
RECURSIVE StrInt(_)
StrInt(str) ==
    IF Len(str) = 0 THEN 0
    ELSE StrInt(SubSeq(str, 1, Len(str) - 1)) * 10
             + DigitVal(SubSeq(str, Len(str), Len(str)))
Hundredths(str) ==
    LET neg   == SubSeq(str, 1, 1) = "-"
        body  == SubSeq(str, IF neg THEN 2 ELSE 1, Len(str) - 1)
        whole == SubSeq(body, 1, Len(body) - 3)
        frac  == SubSeq(body, Len(body) - 1, Len(body))
    IN  (IF neg THEN -1 ELSE 1) * (StrInt(whole) * 100 + StrInt(frac))

\* C19: on a monotone Alignment every scene measured without error spans a
\* non-negative time and reports at least the padding 0.50.
C19_NonNegativeDuration ==
    \A k \in 1..Len(scenes) :
        (InCall /\ MonotoneAlignment /\ Measured(k) /\ ~LookupFailed(k))
            => /\ At(char_ends.val, effective_end_idx[k])
                      - At(char_starts.val, start_idx[k]) >= 0
               /\ Hundredths(scenes[k].duration) >= 50

C19_Witness ==
    /\ InCall
    /\ MonotoneAlignment
    /\ \E k \in 1..Len(scenes) :
          /\ Measured(k) /\ ~LookupFailed(k)
          /\ effective_end_idx[k] < end_idx[k]
          /\ effective_end_idx[k] = start_idx[k]
          /\ Hundredths(scenes[k].duration) = 62

\* C20: a second run on the list the first run left, with the same
\* Alignment, leaves every duration as the first run left it.
C20_Idempotent ==
    (pc = "returned" /\ calls >= 2 /\ alignment = prev_alignment)
        => DurationsOf(scenes) = DurationsOf(scenes_in)

C20_Witness ==
    /\ pc = "returned"
    /\ calls = 2
    /\ alignment = prev_alignment
    /\ \E j, k \in 1..Len(scenes) :
          /\ Measured(k) /\ scenes[k].duration # "error"
          /\ Halted(j)

\* ------------------------------------------------------------------ C21
\* C21: the engine changes nothing on a scene except its duration field:
\* the text, the annotation, the order and the number of the scenes are
\* those of the list that was passed in.
C21_OnlyDurationChanges ==
    InCall =>
        /\ Len(scenes) = Len(scenes_in)
        /\ \A k \in 1..Len(scenes) :
              scenes[k] = [scenes_in[k] EXCEPT !.duration = scenes[k].duration]

\* a call has written the duration of two scenes of three
C21_Witness ==
    /\ pc = "returned"
    /\ Len(scenes) = 3
    /\ Cardinality({k \in 1..3 : scenes[k].duration # scenes_in[k].duration}) = 2

\* ------------------------------------------------------------------ C22
\* lines 76-133 as a function of the list, the Alignment and the flag:
\* the scan from scene k on with the cursor at `cursor`
RECURSIVE ScanFrom(_, _, _, _, _)
ScanFrom(sc, a, flag, k, cursor) ==
    IF k > Len(sc) THEN sc
    ELSE LET len    == Len(sc[k].elevenlabs)
             starts == a.character_start_times_seconds.val
             ends   == a.character_end_times_seconds.val
             eff    == Clamp(cursor + len - 1, Len(starts))
             sep    == IF k < Len(sc) /\ flag
                       THEN Len(SCENE_SEPARATOR) ELSE 0
         IN  IF len = 0
             THEN ScanFrom([sc EXCEPT ![k].duration = "0s"], a, flag,
                           k + 1, cursor)
             ELSE IF cursor >= Len(starts)
             THEN [sc EXCEPT ![k].duration = "error"]
             ELSE ScanFrom(
                     [sc EXCEPT ![k].duration =
                         IF InRange(ends, eff)
                         THEN FormatDuration(final_duration(
                                  Duration(At(starts, cursor), At(ends, eff))))
                         ELSE "error"],
                     a, flag, k + 1, cursor + len + sep)

\* lines 60-135: the list the engine returns
calculate_durations_by_char_count(sc, a, flag) ==
    IF \/ ~Truthy(a.character_start_times_seconds)
       \/ ~Truthy(a.character_end_times_seconds)
    THEN sc
    ELSE ScanFrom(sc, a, flag, 1, 0)

\* the step-by-step scan and the function return the same list
ScanAgreesWithFunction ==
    pc = "returned" =>
        scenes = calculate_durations_by_char_count(scenes_in, alignment,
                                                   expect_control)

\* the list with no duration recorded on any scene
Fresh(sc) == [k \in 1..Len(sc) |-> [sc[k] EXCEPT !.duration = NoDuration]]

\* C22: a call is independent of earlier calls: the durations a scan
\* leaves are those it leaves on the same texts with the same Alignment
\* when no duration was recorded before.
C22_IndependentOfEarlierDurations ==
    (pc = "returned" /\ ~ArraysMissing) =>
        DurationsOf(scenes) =
            DurationsOf(calculate_durations_by_char_count(
                            Fresh(scenes_in), alignment, expect_control))

\* ------------------------------------------------------------------ C23
\* C23: in elevenlabs_generation the texts whose lengths the engine counts
\* are, in order, the texts that were joined and sent to synthesis in the
\* same batch, and the Alignment the engine gets is the one that
\* synthesis call returned.
C23_EngineSeesTheBatch ==
    InCall =>
        /\ voiceover = Interleaved(TextsOf(scenes_in))
        /\ TextsOf(scenes) = TextsOf(scenes_in)
        /\ data.has_alignment
        /\ alignment = data.alignment

\* a second batch got an Alignment other than the first one's and the
\* engine measured a scene with it
C23_Witness ==
    /\ pc = "returned"
    /\ calls = 2
    /\ alignment # prev_alignment
    /\ \E k \in 1..Len(scenes) : Measured(k)

\* ------------------------------------------------------------------ C24
\* C24: when the time arrays are present but have length 0 and the first
\* scene has text, the engine marks that scene with the error sentinel, as
\* for any other start index out of bounds.
C24_EmptyArraysMarkFirstScene ==
    ( /\ pc = "returned"
      /\ char_starts.some /\ char_ends.some
      /\ Len(char_starts.val) = 0
      /\ scenes_in[1].elevenlabs # "" )
    => scenes[1].duration = "error"

\* ------------------------------------------------------------------ C25
\* C25: a failure on scene k (start index out of bounds, or a lookup
\* error) leaves the durations this scan has recorded for the scenes
\* before k as they are.
C25_FailureKeepsEarlierDurations ==
    [][ ( /\ pc = "scan"
          /\ i <= Len(scenes)
          /\ scenes'[i].duration = "error"
          /\ writes'[i] = writes[i] + 1 )
        => \A j \in 1..(i - 1) : scenes'[j] = scenes[j] ]_vars

\* a scan measured its first scene and then failed on a later one
C25_Witness ==
    /\ pc = "returned"
    /\ Measured(1) /\ writes[1] = 1
    /\ scenes[1].duration \notin {"error", "0s", scenes_in[1].duration}
    /\ \E k \in 2..Len(scenes) :
          writes[k] = 1 /\ scenes[k].duration = "error"

\* ------------------------------------------------------------------ C26
\* 0-based offset of the text of scene k in the concatenated string
OffsetInVoiceover(k) ==
    IF k = 1 THEN 0
    ELSE Len(Interleaved(SubSeq(TextsOf(scenes_in), 1, k - 1)))
         + Len(SCENE_SEPARATOR)

\* C26: with the separator retained in the Alignment, the start index of
\* every measured scene is the character offset of that scene's text in
\* the concatenated string, also for lists that contain empty scenes.
C26_StartIsOffsetInConcatenation ==
    (InCall /\ expect_control) =>
        \A k \in 1..Len(scenes) :
            Measured(k) => start_idx[k] = OffsetInVoiceover(k)

\* ------------------------------------------------------------------ C27
\* C27: every lookup the scan makes uses indices within the start-time
\* array, 0 <= start_idx <= effective_end_idx <= N - 1; so when the
\* end-time array has length N as well, no lookup fails.
C27_LookupIndicesInBounds ==
    InCall =>
        \A k \in 1..Len(scenes) :
            Measured(k) =>
                /\ 0 <= start_idx[k]
                /\ start_idx[k] <= effective_end_idx[k]
                /\ effective_end_idx[k] <= N - 1
                /\ (Len(char_ends.val) = N =>
                        ~LookupFailed(k) /\ scenes[k].duration # "error")

\* equal-length arrays, and the end index of a measured scene was clamped
\* to the last entry
C27_Witness ==
    /\ pc = "returned"
    /\ Len(char_ends.val) = N
    /\ \E k \in 1..Len(scenes) :
          /\ Measured(k)
          /\ end_idx[k] > N - 1
          /\ effective_end_idx[k] = N - 1
          /\ start_idx[k] > 0

\* ------------------------------------------------------------- the pages
\* custom_pages/: the three generation pages of the multi-page app and the
\* session they share.  A scene without an 'elevenlabs' key is a scene
\* whose text is "", which is how every reader takes it (.get with "").
PageTexts == {"Hi.", "Bye."}

\* voiceover_main.py lines 92-114: the defaults of a new session;
\* gemini and elevenlabs tell whether a key is configured
InitialSession(gemini, elevenlabs) ==
    [is_processing      |-> FALSE,
     scenes             |-> None,
     refined_scenes     |-> None,
     audio              |-> FALSE,
     gemini_api_key     |-> gemini,
     elevenlabs_api_key |-> elevenlabs]

\* scripts generate_voiceover_scenes returns: comment and speech only
VoiceoverLists ==
    {[k \in 1..n |-> [elevenlabs |-> "", comment |-> "note",
                      duration |-> NoDuration]] : n \in 1..MaxPageScenes}

\* add_audio_tags.py lines 90-94, add_elevenlabs_tags: the scenes of sc
\* with a markup text each, and no other key than comment and speech
Retagged(sc) ==
    {[k \in 1..Len(sc) |-> [elevenlabs |-> ts[k], comment |-> sc[k].comment,
                            duration |-> NoDuration]] :
        ts \in [1..Len(sc) -> PageTexts]}

\* generate_voiceover.py lines 95-98: the scenes of sc with comment and
\* speech only
Unedited(sc) ==
    [k \in 1..Len(sc) |-> [elevenlabs |-> "", comment |-> sc[k].comment,
                           duration |-> NoDuration]]

\* responses of the synthesis call behind the audio page
PageResponses ==
    {[has_alignment |-> FALSE, alignment |-> NoArrays]}
    \cup
    {[has_alignment |-> TRUE,
      alignment |-> [character_start_times_seconds |->
                         Some(StartTimes(n, 100, "up")),
                     character_end_times_seconds |->
                         Some(EndTimes(n, 100, "up"))]] : n \in {MaxAlign}}

\* elevenlabs_helpers.py lines 203-241: the scenes of the returned script
elevenlabs_generation(sc, response, flag) ==
    IF response.has_alignment
    THEN calculate_durations_by_char_count(sc, response.alignment, flag)
    ELSE sc

InitPages ==
    /\ scenes = <<[elevenlabs |-> "Hi.", comment |-> "note",
                   duration |-> NoDuration]>>
    /\ alignment = NoArrays
    /\ expect_control = FALSE
    /\ pc = "start"
    /\ voiceover = ""
    /\ data = [has_alignment |-> FALSE, alignment |-> NoArrays]
    /\ prev_alignment = NoArrays
    /\ last_ok_return = <<>>
    /\ i = 0
    /\ alignment_cursor = 0
    /\ total_alignment_chars = 0
    /\ returned = <<>>
    /\ calls = 0
    /\ scenes_in = scenes
    /\ start_idx = Blank(NoIdx)
    /\ end_idx = Blank(NoIdx)
    /\ effective_end_idx = Blank(NoIdx)
    /\ lookups = Blank(0)
    /\ writes = Blank(0)
    /\ \E g \in BOOLEAN, e \in BOOLEAN :
          session_state = InitialSession(g, e)
    /\ script = "idle"
    /\ handed = None
    /\ saved_edits = None

\* generate_voiceover.py lines 15-21: the button is pressed
PressGenerateVoiceover ==
    /\ script = "idle"
    /\ ~session_state.is_processing
    /\ session_state' = [session_state EXCEPT !.is_processing = TRUE]
    /\ script' = "voiceover"
    /\ UNCHANGED <<handed, saved_edits>>
    /\ UNCHANGED engine_vars

\* add_audio_tags.py lines 10-20
PressAddAudioTags ==
    /\ script = "idle"
    /\ Truthy(session_state.scenes)
    /\ ~session_state.is_processing
    /\ session_state' = [session_state EXCEPT !.is_processing = TRUE]
    /\ script' = "tags"
    /\ UNCHANGED <<handed, saved_edits>>
    /\ UNCHANGED engine_vars

\* generate_elevenlabs_audio.py lines 10-31
PressGenerateAudio ==
    /\ script = "idle"
    /\ session_state.elevenlabs_api_key
    /\ Truthy(session_state.refined_scenes)
    /\ ~session_state.is_processing
    /\ session_state' = [session_state EXCEPT !.is_processing = TRUE]
    /\ script' = "audio"
    /\ UNCHANGED <<handed, saved_edits>>
    /\ UNCHANGED engine_vars

\* voiceover_main.py lines 65-75: no key, st.stop() ends the script run;
\* the StopException is not an Exception, so no handler of the page runs
GeminiClientHalts ==
    /\ script \in {"voiceover", "tags"}
    /\ ~session_state.gemini_api_key
    /\ script' = "idle"
    /\ UNCHANGED <<session_state, handed, saved_edits>>
    /\ UNCHANGED engine_vars

\* the `except Exception` branch of the three pages
CallRaises ==
    /\ script \in {"voiceover", "tags", "audio"}
    /\ script \in {"voiceover", "tags"} => session_state.gemini_api_key
    /\ session_state' = [session_state EXCEPT !.is_processing = FALSE]
    /\ script' = "idle"
    /\ UNCHANGED <<handed, saved_edits>>
    /\ UNCHANGED engine_vars

\* generate_voiceover.py lines 26-46
VoiceoverSucceeds ==
    /\ script = "voiceover"
    /\ session_state.gemini_api_key
    /\ \E sc \in VoiceoverLists :
          session_state' = [session_state EXCEPT !.scenes = Some(sc),
                                                 !.is_processing = FALSE]
    /\ script' = "idle"
    /\ UNCHANGED <<handed, saved_edits>>
    /\ UNCHANGED engine_vars

\* add_audio_tags.py lines 24-41
TagsSucceed ==
    /\ script = "tags"
    /\ session_state.gemini_api_key
    /\ \E refined \in Retagged(session_state.scenes.val) :
          session_state' = [session_state EXCEPT
                               !.refined_scenes = Some(refined),
                               !.scenes = Some(refined),
                               !.is_processing = FALSE]
    /\ saved_edits' = None
    /\ script' = "idle"
    /\ UNCHANGED handed
    /\ UNCHANGED engine_vars

\* generate_elevenlabs_audio.py lines 35-55
AudioSucceeds ==
    /\ script = "audio"
    /\ handed' = Some(session_state.scenes.val)
    /\ \E response \in PageResponses :
          session_state' = [session_state EXCEPT
                               !.scenes = Some(elevenlabs_generation(
                                              session_state.scenes.val,
                                              response, expect_control)),
                               !.audio = TRUE,
                               !.is_processing = FALSE]
    /\ script' = "idle"
    /\ UNCHANGED saved_edits
    /\ UNCHANGED engine_vars

\* add_audio_tags.py lines 52-103: "Save Final Edits"
SaveFinalEdits ==
    /\ script = "idle"
    /\ Truthy(session_state.refined_scenes)
    /\ \E edited_refined \in Retagged(session_state.refined_scenes.val) :
          /\ session_state' = [session_state EXCEPT
                                  !.refined_scenes = Some(edited_refined)]
          /\ saved_edits' = Some(edited_refined)
    /\ handed' = None
    /\ UNCHANGED script
    /\ UNCHANGED engine_vars

\* add_audio_tags.py lines 106-110: "Regenerate Tags"
RegenerateTags ==
    /\ script = "idle"
    /\ Truthy(session_state.refined_scenes)
    /\ session_state' = [session_state EXCEPT !.is_processing = FALSE,
                                              !.refined_scenes = None]
    /\ saved_edits' = None
    /\ UNCHANGED <<script, handed>>
    /\ UNCHANGED engine_vars

\* generate_voiceover.py lines 58-107: "Save Edits"
SaveVoiceoverEdits ==
    /\ script = "idle"
    /\ Truthy(session_state.scenes)
    /\ session_state' = [session_state EXCEPT
                            !.scenes = Some(Unedited(session_state.scenes.val))]
    /\ UNCHANGED <<script, handed, saved_edits>>
    /\ UNCHANGED engine_vars

\* generate_voiceover.py lines 110-113: "Regenerate Script"
RegenerateScript ==
    /\ script = "idle"
    /\ Truthy(session_state.scenes)
    /\ session_state' = [session_state EXCEPT !.is_processing = FALSE]
    /\ UNCHANGED <<script, handed, saved_edits>>
    /\ UNCHANGED engine_vars

\* settings.py lines 52-58: a key is entered
ConfigureKeys ==
    /\ script = "idle"
    /\ \/ session_state' = [session_state EXCEPT !.gemini_api_key = TRUE]
       \/ session_state' = [session_state EXCEPT !.elevenlabs_api_key = TRUE]
    /\ UNCHANGED <<script, handed, saved_edits>>
    /\ UNCHANGED engine_vars

NextPages ==
    \/ PressGenerateVoiceover
    \/ PressAddAudioTags
    \/ PressGenerateAudio
    \/ GeminiClientHalts
    \/ CallRaises
    \/ VoiceoverSucceeds
    \/ TagsSucceed
    \/ AudioSucceeds
    \/ SaveFinalEdits
    \/ RegenerateTags
    \/ SaveVoiceoverEdits
    \/ RegenerateScript
    \/ ConfigureKeys

SpecPages == InitPages /\ [][NextPages]_vars

\* ------------------------------------------------------------------ C28
\* C28: after "Save Final Edits" on the audio-tag page, the next audio
\* generation hands to elevenlabs_generation the saved, edited markup text
\* of each scene.
C28_GenerationUsesSavedEdits ==
    (handed.some /\ saved_edits.some) =>
        TextsOf(handed.val) = TextsOf(saved_edits.val)

\* ------------------------------------------------------------------ C29
\* C29: when the script run that a generation button started has ended
\* (the call succeeded, raised, or the client getter halted the run), the
\* is_processing flag is False again, so the button is enabled.
C29_FlagResetWhenRunEnds ==
    script = "idle" => ~session_state.is_processing

\* ------------------------------------------------------------ the wizard
\* voiceover_app.py: the single-file wizard.  A deleted session key and a
\* key that holds None are the same to every test the wizard makes.
NoState == "None"

\* lines 164-173
WORKFLOW_STATES ==
    [slides_import      |-> [next |-> "upload",             step |-> 0],
     upload             |-> [next |-> "generate_voiceover", step |-> 1],
     generate_voiceover |-> [next |-> "review_voiceover",   step |-> 2],
     review_voiceover   |-> [next |-> "add_audio_tags",     step |-> 3],
     add_audio_tags     |-> [next |-> "review_final",       step |-> 4],
     review_final       |-> [next |-> "export",             step |-> 5],
     export             |-> [next |-> "debug",              step |-> 6],
     debug              |-> [next |-> NoState,              step |-> 7]]

\* mutant: the test of next_state is dropped
advance_workflow_unguarded(ss) ==
    [ss EXCEPT !.workflow_state = WORKFLOW_STATES[ss.workflow_state].next]

\* lines 176-181
advance_workflow(ss) ==
    LET current    == ss.workflow_state
        next_state == WORKFLOW_STATES[current].next
    IN  IF next_state # NoState
        THEN [ss EXCEPT !.workflow_state = next_state]
        ELSE ss

\* lines 184-190
reset_workflow(ss) ==
    [ss EXCEPT !.workflow_state = "slides_import",
               !.pdf_base64 = FALSE,
               !.scenes = None,
               !.refined_scenes = None]

\* lines 112-138: the defaults of a new session; gemini tells whether
\* GEMINI_API_KEY is in the secrets
WizardSession(gemini) ==
    [workflow_state |-> "slides_import",
     is_processing  |-> FALSE,
     pdf_base64     |-> FALSE,
     scenes         |-> None,
     refined_scenes |-> None,
     gemini_api_key |-> gemini]

\* what an agent run yields: no scene, or a script
AgentLists == {<<>>} \cup VoiceoverLists

InitWizard ==
    /\ scenes = <<[elevenlabs |-> "Hi.", comment |-> "note",
                   duration |-> NoDuration]>>
    /\ alignment = NoArrays
    /\ expect_control = FALSE
    /\ pc = "start"
    /\ voiceover = ""
    /\ data = [has_alignment |-> FALSE, alignment |-> NoArrays]
    /\ prev_alignment = NoArrays
    /\ last_ok_return = <<>>
    /\ i = 0
    /\ alignment_cursor = 0
    /\ total_alignment_chars = 0
    /\ returned = <<>>
    /\ calls = 0
    /\ scenes_in = scenes
    /\ start_idx = Blank(NoIdx)
    /\ end_idx = Blank(NoIdx)
    /\ effective_end_idx = Blank(NoIdx)
    /\ lookups = Blank(0)
    /\ writes = Blank(0)
    /\ \E g \in BOOLEAN : session_state = WizardSession(g)
    /\ script = "idle"
    /\ handed = None
    /\ saved_edits = None

\* every handler of the wizard runs to its st.rerun() in one step
WizardFrame ==
    /\ UNCHANGED <<script, handed, saved_edits>>
    /\ UNCHANGED engine_vars

\* lines 316-342: "Skip"
SkipSlidesImport ==
    /\ session_state.workflow_state = "slides_import"
    /\ session_state' = advance_workflow(session_state)
    /\ WizardFrame

\* lines 487-495: a file is chosen
UploadPdf ==
    /\ session_state.workflow_state = "upload"
    /\ ~session_state.pdf_base64
    /\ session_state' = [session_state EXCEPT !.pdf_base64 = TRUE]
    /\ WizardFrame

\* lines 472-485: "Continue"
ContinueFromUpload ==
    /\ session_state.workflow_state = "upload"
    /\ session_state.pdf_base64
    /\ session_state' = advance_workflow(session_state)
    /\ WizardFrame

\* lines 514-616 and 725-805: a generation button; the agent run
\* succeeds, raises, or get_gemini_client stops the script
RunAgent(key) ==
    /\ ~session_state.is_processing
    /\ \/ /\ ~session_state.gemini_api_key
          /\ session_state' = [session_state EXCEPT !.is_processing = TRUE]
       \/ /\ session_state.gemini_api_key
          /\ UNCHANGED session_state
       \/ /\ session_state.gemini_api_key
          /\ \E sc \in AgentLists :
                session_state' =
                    advance_workflow([session_state EXCEPT ![key] = Some(sc)])
    /\ WizardFrame

\* lines 514-600
WizardGenerateVoiceover ==
    /\ session_state.workflow_state = "generate_voiceover"
    /\ session_state.pdf_base64
    /\ RunAgent("scenes")

\* lines 725-789
WizardAddAudioTags ==
    /\ session_state.workflow_state = "add_audio_tags"
    /\ Truthy(session_state.scenes)
    /\ RunAgent("refined_scenes")

\* lines 704-718 and 893-907: the approved list is stored, then the
\* wizard advances
Approve ==
    /\ \/ /\ session_state.workflow_state = "review_voiceover"
          /\ Truthy(session_state.scenes)
       \/ /\ session_state.workflow_state = "review_final"
          /\ Truthy(session_state.refined_scenes)
    /\ session_state' = advance_workflow(session_state)
    /\ WizardFrame

\* lines 518-522, 626-630, 693-695, 729-733, 815-819, 882-884: "Go Back"
\* and "Regenerate"
GoBack ==
    /\ \/ /\ session_state.workflow_state = "generate_voiceover"
          /\ ~session_state.pdf_base64
          /\ session_state' = [session_state EXCEPT
                                  !.workflow_state = "upload"]
       \/ /\ session_state.workflow_state = "review_voiceover"
          /\ session_state' = [session_state EXCEPT
                                  !.workflow_state = "generate_voiceover"]
       \/ /\ session_state.workflow_state = "add_audio_tags"
          /\ ~Truthy(session_state.scenes)
          /\ session_state' = [session_state EXCEPT
                                  !.workflow_state = "review_voiceover"]
       \/ /\ session_state.workflow_state = "review_final"
          /\ session_state' = [session_state EXCEPT
                                  !.workflow_state = "add_audio_tags"]
    /\ WizardFrame

\* lines 257-277: a "Jump to Step" button of the sidebar
JumpToStep ==
    /\ \E state_key \in DOMAIN WORKFLOW_STATES :
          /\ state_key # session_state.workflow_state
          /\ session_state' = [session_state EXCEPT
                                  !.workflow_state = state_key]
    /\ WizardFrame

\* lines 284-286, 981-983, 1098-1100: "Start Over"
StartOver ==
    /\ session_state' = reset_workflow(session_state)
    /\ WizardFrame

\* lines 1092-1105: the buttons of the debug step
DebugGoTo ==
    /\ session_state.workflow_state = "debug"
    /\ \E state_key \in {"slides_import", "export"} :
          session_state' = [session_state EXCEPT
                               !.workflow_state = state_key]
    /\ WizardFrame

\* lines 305-309, then 112-138 on the rerun: every key is deleted and the
\* defaults are set again
ResetAllSessionState ==
    /\ session_state' = WizardSession(session_state.gemini_api_key)
    /\ WizardFrame

NextWizard ==
    \/ SkipSlidesImport
    \/ UploadPdf
    \/ ContinueFromUpload
    \/ WizardGenerateVoiceover
    \/ WizardAddAudioTags
    \/ Approve
    \/ GoBack
    \/ JumpToStep
    \/ StartOver
    \/ DebugGoTo
    \/ ResetAllSessionState

SpecWizard == InitWizard /\ [][NextWizard]_vars

\* ------------------------------------------------------------------ C30
\* the handlers that call advance_workflow, and those that call
\* reset_workflow
AdvanceHandlers ==
    SkipSlidesImport \/ ContinueFromUpload \/ Approve
ResetHandlers == StartOver

\* C30: in the wizard workflow_state is always one of the eight keys of
\* WORKFLOW_STATES; advance_workflow moves to the 'next' of the current
\* state and to nothing else, and leaves the session as it is at the
\* terminal state 'debug'; reset_workflow returns to 'slides_import'.
C30_WorkflowStateValid ==
    /\ [](LET ws       == session_state.workflow_state
              advanced == advance_workflow(session_state)
          IN  /\ Cardinality(DOMAIN WORKFLOW_STATES) = 8
              /\ ws \in DOMAIN WORKFLOW_STATES
              /\ advanced.workflow_state \in DOMAIN WORKFLOW_STATES
              /\ ws = "debug" => advanced = session_state
              /\ ws # "debug" =>
                    /\ advanced.workflow_state = WORKFLOW_STATES[ws].next
                    /\ WORKFLOW_STATES[advanced.workflow_state].step =
                          WORKFLOW_STATES[ws].step + 1
              /\ reset_workflow(session_state).workflow_state =
                    "slides_import")
    /\ [][ /\ AdvanceHandlers =>
                session_state'.workflow_state =
                    WORKFLOW_STATES[session_state.workflow_state].next
           /\ ResetHandlers =>
                session_state'.workflow_state = "slides_import" ]_vars

\* the terminal step is reached in a session that went through both
\* generations
C30_Witness ==
    /\ session_state.workflow_state = "debug"
    /\ Truthy(session_state.scenes)
    /\ Truthy(session_state.refined_scenes)

====
